---- MODULE Spec2Model ----
(***************************************************************************)
(* A model of lib/polars_view.py: the PolarsView query builder.  A view    *)
(* holds a source table and accumulates filter predicates, one dynamic     *)
(* date grouping rule and aggregation expressions; resolve_view evaluates  *)
(* them with polars (filter, then group_by_dynamic, then agg).  With it,   *)
(* a model of the mapped classes of lib/sql_country.py, lib/sql_geotag.py  *)
(* and lib/sql_gdelt_record.py over the tables COUNTRY, GEO_TAG and        *)
(* GDELT_RECORD, and a model of the scripts of the two pages               *)
(* pages/visualise_longitudinal.py and pages/explore_db_disk.py over the   *)
(* session they share.                                                     *)
(*                                                                         *)
(* Tables are sequences of rows, a row is a tuple of cells aligned with    *)
(* Columns.  Dates are the integers yyyymmdd, so that the order of the     *)
(* integers is the order of the dates.  A missing cell is NULL.            *)
(***************************************************************************)
EXTENDS Integers, Sequences, FiniteSets, TLC

VARIABLES data_frame, filter_expressions, group_by_column, group_by_step,
          agg_expressions, ret, COUNTRY, GEO_TAG, GDELT_RECORD, session_state

vars == <<data_frame, filter_expressions, group_by_column, group_by_step,
          agg_expressions, ret, COUNTRY, GEO_TAG, GDELT_RECORD, session_state>>

pending == <<filter_expressions, group_by_column, group_by_step, agg_expressions>>

\* The tables of the database, each a sequence of records in insertion order.
db == <<COUNTRY, GEO_TAG, GDELT_RECORD>>

(***************************************************************************)
(* Bounds of the model.                                                    *)
(***************************************************************************)
\* The longest source table.
MaxRows == 2

\* The most expressions (predicates and aggregations together) a view is given.
MaxPending == 2

(***************************************************************************)
(* Values.                                                                 *)
(***************************************************************************)
\* Python's None, as held by _group_by_column and _group_by_step.
None == "<None>"

\* A null cell of a polars column (an Optional mapped column holding no value).
NULL == -1

\* The columns of the source table, in table order, and their polars dtypes.
Columns == <<"date", "a">>

ColumnSet == {Columns[i] : i \in 1..Len(Columns)}

ColIdx(col_name) == CHOOSE i \in 1..Len(Columns) : Columns[i] = col_name

ColType(col_name) == IF col_name = "date" THEN "Date" ELSE "Int64"

\* Column names that are asked for but are not in the table.
UnknownCols == {"banana"}

NumericCols == {c \in ColumnSet : ColType(c) = "Int64"}

DateCols == {c \in ColumnSet : ColType(c) = "Date"}

\* The rows a source table is made of: two days of January 2000, and one day of
\* February 2001 whose value is missing.
SourceRows == {<<20000101, 1>>, <<20000131, 2>>, <<20010201, NULL>>}

RECURSIVE SeqsUpTo(_, _)
SeqsUpTo(S, n) ==
    IF n = 0 THEN {<<>>}
    ELSE LET shorter == SeqsUpTo(S, n - 1)
         IN  shorter \cup {Append(s, x) : s \in {t \in shorter : Len(t) = n - 1}, x \in S}

SourceTables == SeqsUpTo(SourceRows, MaxRows)


(***************************************************************************)
(* Errors.  A message is the tuple of its literal parts and of the values  *)
(* the f-string embeds in it.                                              *)
(***************************************************************************)
\* str() of a value inside an f-string: Python's None prints as the word None.
Format(value) == IF value = None THEN "None" ELSE value

\* validate_column_name's ValueError.
UnknownColumnError(col_name) ==
    [kind |-> "error", error |-> "ValueError",
     msg |-> <<"Column name '", Format(col_name), "' not found in data view!">>]

\* apply_dynamic_date_grouping's ValueError.
InvalidRankError(selection_rank) ==
    [kind |-> "error", error |-> "ValueError",
     msg |-> <<"Unable to apply grouping based on input value '",
               Format(selection_rank), "'!">>]

\* The error polars raises from DataFrame.get_column for a missing column.
ColumnNotFoundError(col_name) ==
    [kind |-> "error", error |-> "ColumnNotFoundError", msg |-> <<Format(col_name)>>]

\* The errors polars raises when a query is collected.
PolarsError(name) == [kind |-> "error", error |-> name, msg |-> <<>>]

Returned(value) == [kind |-> "value", value |-> value]

(***************************************************************************)
(* polars: series reductions.  Nulls are skipped.                          *)
(***************************************************************************)
Column(rows, col_name) == [i \in 1..Len(rows) |-> rows[i][ColIdx(col_name)]]

NonNull(series) == SelectSeq(series, LAMBDA v : v # NULL)

RECURSIVE SeqSum(_)
SeqSum(series) == IF series = <<>> THEN 0 ELSE Head(series) + SeqSum(Tail(series))

SeriesSum(series) == SeqSum(NonNull(series))

SeriesMin(series) ==
    LET s == NonNull(series)
    IN  IF s = <<>> THEN NULL
        ELSE CHOOSE m \in {s[i] : i \in 1..Len(s)} : \A j \in 1..Len(s) : m <= s[j]

SeriesMax(series) ==
    LET s == NonNull(series)
    IN  IF s = <<>> THEN NULL
        ELSE CHOOSE m \in {s[i] : i \in 1..Len(s)} : \A j \in 1..Len(s) : m >= s[j]

SeriesCount(series) == Len(NonNull(series))

\* Expr.cast(dtype): the value tagged with the dtype it now has.
Cast(v, dtype) == <<dtype, v>>

\* Implode over the values that are not null only.
Implode_drop_nulls(series, dtype) ==
    [i \in 1..Len(NonNull(series)) |-> Cast(NonNull(series)[i], dtype)]

\* Expr.implode(): all the values of the group, in row order, as one list.
Implode(series, dtype) == [i \in 1..Len(series) |-> Cast(series[i], dtype)]

(***************************************************************************)
(* polars: filter.  A comparison with a null is null, and filter keeps     *)
(* the rows for which every predicate is true.                             *)
(***************************************************************************)
EvalPredicate(row, pred) ==
    LET v == row[ColIdx(pred.col)]
    IN  IF v = NULL THEN "null"
        ELSE IF pred.op = "ge" THEN (IF v >= pred.value THEN "true" ELSE "false")
        ELSE (IF v <= pred.value THEN "true" ELSE "false")

Filter(rows, predicates) ==
    SelectSeq(rows, LAMBDA row :
        \A i \in 1..Len(predicates) : EvalPredicate(row, predicates[i]) = "true")

(***************************************************************************)
(* polars: group_by_dynamic(index_column, every).agg(exprs)                *)
(***************************************************************************)
\* The unit of a polars duration string: "1m" is one minute, "1mo" one month.
EveryUnit(every) ==
    CASE every = "1y"  -> "year"
      [] every = "1mo" -> "month"
      [] every = "1d"  -> "day"
      [] every = "1m"  -> "minute"

\* The start of the window of the given unit that holds the date d (a date is
\* the midnight of its day, which starts a day and a minute).
Truncate(d, unit) ==
    CASE unit = "year"   -> (d \div 10000) * 10000 + 101
      [] unit = "month"  -> (d \div 100) * 100 + 1
      [] unit = "day"    -> d
      [] unit = "minute" -> d

IsSorted(series) == \A i, j \in 1..Len(series) : i < j => series[i] <= series[j]

RECURSIVE SortedSeq(_)
SortedSeq(S) ==
    IF S = {} THEN <<>>
    ELSE LET m == CHOOSE x \in S : \A y \in S : x <= y
         IN  <<m>> \o SortedSeq(S \ {m})

EvalExpr(expr, rows) ==
    LET series == Column(rows, expr.col)
    IN  CASE expr.func = "sum"     -> SeriesSum(series)
          [] expr.func = "min"     -> SeriesMin(series)
          [] expr.func = "max"     -> SeriesMax(series)
          [] expr.func = "count"   -> SeriesCount(series)
          [] expr.func = "implode" -> Implode(series, expr.dtype)

Labels(exprs) == [i \in 1..Len(exprs) |-> exprs[i].label]

HasDuplicates(names) == \E i, j \in 1..Len(names) : i < j /\ names[i] = names[j]

Table(columns, rows) == [kind |-> "table", columns |-> columns, rows |-> rows]

\* GroupByDynamic with the expressions laid out last to first.
GroupByDynamic_reversed(rows, index_column, every, exprs) ==
    LET index   == Column(rows, index_column)
        unit    == EveryUnit(every)
        back    == [i \in 1..Len(exprs) |-> exprs[Len(exprs) + 1 - i]]
        columns == <<index_column>> \o Labels(back)
        keys    == SortedSeq({Truncate(index[i], unit) : i \in 1..Len(index)})
        Bucket(key) == SelectSeq(rows, LAMBDA row :
                           Truncate(row[ColIdx(index_column)], unit) = key)
    IN  IF HasDuplicates(columns) THEN PolarsError("DuplicateError")
        ELSE IF ColType(index_column) # "Date" THEN PolarsError("InvalidOperationError")
        ELSE IF ~IsSorted(index) THEN PolarsError("InvalidOperationError")
        ELSE Table(columns,
                   [k \in 1..Len(keys) |->
                       <<keys[k]>> \o [i \in 1..Len(back) |-> EvalExpr(back[i], Bucket(keys[k]))]])

GroupByDynamic(rows, index_column, every, exprs) ==
    LET index   == Column(rows, index_column)
        unit    == EveryUnit(every)
        columns == <<index_column>> \o Labels(exprs)
        keys    == SortedSeq({Truncate(index[i], unit) : i \in 1..Len(index)})
        Bucket(key) == SelectSeq(rows, LAMBDA row :
                           Truncate(row[ColIdx(index_column)], unit) = key)
    IN  IF HasDuplicates(columns) THEN PolarsError("DuplicateError")
        ELSE IF ColType(index_column) # "Date" THEN PolarsError("InvalidOperationError")
        ELSE IF ~IsSorted(index) THEN PolarsError("InvalidOperationError")
        ELSE Table(columns,
                   [k \in 1..Len(keys) |->
                       <<keys[k]>> \o [i \in 1..Len(exprs) |-> EvalExpr(exprs[i], Bucket(keys[k]))]])

(***************************************************************************)
(* PolarsView                                                              *)
(***************************************************************************)
\* Python truthiness of a str-or-None attribute.
Truthy(value) == value # None /\ value # ""

\* What a call left behind for its caller: the method called, its column and
\* its other argument, and the value returned or the error raised.
Outcome(op, col_name, arg, out) == [op |-> op, col |-> col_name, arg |-> arg, out |-> out]

\* The test of validate_column_name: TRUE when it raises.
ColumnMissing(col_name) == col_name \notin ColumnSet

FilterExpr(col_name, op, value) == [col |-> col_name, op |-> op, value |-> value]

\* build_summary_expr with the column name alone as the label.
build_summary_expr_column_label(col_name, col_func) ==
    <<col_name, [func |-> col_func, col |-> col_name, label |-> col_name]>>

\* build_summary_expr: the label and the aliased expression.
build_summary_expr(col_name, col_func) ==
    LET col_label == col_func \o "_" \o col_name
    IN  <<col_label, [func |-> col_func, col |-> col_name, label |-> col_label]>>

\* The expression apply_series_rule builds.
SeriesExpr(col_name, dtype) ==
    [func |-> "implode", col |-> col_name, dtype |-> dtype,
     label |-> col_name \o "_implode"]

\* The columns an expression list reads.
ExprCols(exprs) == {exprs[i].col : i \in 1..Len(exprs)}

\* ResolveView with only the first pending predicate applied.
ResolveView_first_filter_only(df, filters, by_column, by_step, aggs) ==
    LET filtered == IF filters # <<>> THEN Filter(df, <<filters[1]>>) ELSE df
    IN  IF Truthy(by_column) /\ Truthy(by_step)
        THEN GroupByDynamic(filtered, by_column, by_step, aggs)
        ELSE Table(Columns, filtered)

\* ResolveView with the rows that hold a null dropped from the frame.
ResolveView_drop_nulls(df, filters, by_column, by_step, aggs) ==
    LET complete == SelectSeq(df, LAMBDA row : \A i \in 1..Len(Columns) : row[i] # NULL)
        filtered == IF filters # <<>> THEN Filter(complete, filters) ELSE complete
    IN  IF Truthy(by_column) /\ Truthy(by_step)
        THEN GroupByDynamic(filtered, by_column, by_step, aggs)
        ELSE Table(Columns, filtered)

\* ResolveView with the pending expressions applied to the whole frame when no rule
\* is pending.
ResolveView_select_without_rule(df, filters, by_column, by_step, aggs) ==
    LET filtered == IF filters # <<>> THEN Filter(df, filters) ELSE df
    IN  IF Truthy(by_column) /\ Truthy(by_step)
        THEN GroupByDynamic(filtered, by_column, by_step, aggs)
        ELSE IF aggs # <<>>
        THEN Table(Labels(aggs), <<[i \in 1..Len(aggs) |-> EvalExpr(aggs[i], filtered)]>>)
        ELSE Table(Columns, filtered)

\* ResolveView with the rows grouped and reduced before the predicates are applied (to
\* the bucket column of the grouped rows).
ResolveView_group_first(df, filters, by_column, by_step, aggs) ==
    LET grouped  == Truthy(by_column) /\ Truthy(by_step)
        read     == ExprCols(filters)
                    \cup (IF grouped THEN {by_column} \cup ExprCols(aggs) ELSE {})
        filtered == IF filters # <<>> THEN Filter(df, filters) ELSE df
        whole    == GroupByDynamic(df, by_column, by_step, aggs)
        on_key   == SelectSeq(filters, LAMBDA pred : pred.col = by_column)
    IN  IF ~(read \subseteq ColumnSet) THEN PolarsError("ColumnNotFoundError")
        ELSE IF grouped
        THEN IF whole.kind = "table"
             THEN Table(whole.columns, IF on_key # <<>> THEN Filter(whole.rows, on_key)
                                       ELSE whole.rows)
             ELSE whole
        ELSE Table(Columns, filtered)

\* The table resolve_view returns, or the error collect() raises.
ResolveView(df, filters, by_column, by_step, aggs) ==
    LET grouped  == Truthy(by_column) /\ Truthy(by_step)
        read     == ExprCols(filters)
                    \cup (IF grouped THEN {by_column} \cup ExprCols(aggs) ELSE {})
        filtered == IF filters # <<>> THEN Filter(df, filters) ELSE df
    IN  IF ~(read \subseteq ColumnSet) THEN PolarsError("ColumnNotFoundError")
        ELSE IF grouped THEN GroupByDynamic(filtered, by_column, by_step, aggs)
        ELSE Table(Columns, filtered)

\* Python's None where a table is held.
NoTable == [kind |-> "None"]

\* The keys init_session gives a new session, of which the pages' tables, dates and
\* country are kept here.  max_events is not among them: a page sets it before it is
\* read.  A date or a number that is None is NULL.
init_session ==
    [min_date |-> NULL, max_date |-> NULL, max_events |-> NULL,
     explore_table |-> NoTable, source_country |-> None, plot_table |-> NoTable]

Init ==
    /\ data_frame \in SourceTables
    /\ filter_expressions = <<>>
    /\ group_by_column = None
    /\ group_by_step = None
    /\ agg_expressions = <<>>
    /\ ret = Outcome("__init__", None, None, Returned(None))
    /\ COUNTRY = <<>>
    /\ GEO_TAG = <<>>
    /\ GDELT_RECORD = <<>>
    /\ session_state = init_session

validate_column_name(col_name) ==
    /\ ret' = Outcome("validate_column_name", col_name, None,
                      IF ColumnMissing(col_name) THEN UnknownColumnError(col_name)
                      ELSE Returned(None))
    /\ UNCHANGED <<session_state, db, data_frame, pending>>

extract_data_spread(col_name) ==
    /\ ret' = Outcome("extract_data_spread", col_name, None,
                      IF col_name \notin ColumnSet THEN ColumnNotFoundError(col_name)
                      ELSE LET data_series == Column(data_frame, col_name)
                           IN  Returned(<<SeriesMin(data_series), SeriesMax(data_series)>>))
    /\ UNCHANGED <<session_state, db, data_frame, pending>>

\* extract_data_total over the rows that pass the pending filters.
extract_data_total_filtered(col_name) ==
    /\ ret' = Outcome("extract_data_total", col_name, None,
                      IF col_name \notin ColumnSet THEN ColumnNotFoundError(col_name)
                      ELSE Returned(SeriesSum(Column(
                               IF filter_expressions # <<>>
                               THEN Filter(data_frame, filter_expressions) ELSE data_frame,
                               col_name))))
    /\ UNCHANGED <<session_state, db, data_frame, pending>>

extract_data_total(col_name) ==
    /\ ret' = Outcome("extract_data_total", col_name, None,
                      IF col_name \notin ColumnSet THEN ColumnNotFoundError(col_name)
                      ELSE Returned(SeriesSum(Column(data_frame, col_name))))
    /\ UNCHANGED <<session_state, db, data_frame, pending>>

\* MatchRank that keeps a rule that is already set when it is given a valid rank.
MatchRank_first_rule_stays(selection_rank, col_name) ==
    LET column == IF group_by_column # None THEN group_by_column ELSE col_name
        Step(every) == IF group_by_step # None THEN group_by_step ELSE every
    IN  CASE selection_rank = "Year"  -> <<column, Step("1y"), Returned("YYYY")>>
          [] selection_rank = "Month" -> <<column, Step("1m"), Returned("YYYY MMMM")>>
          [] selection_rank = "Day"   -> <<column, Step("1d"), Returned("YYYY MMM DD")>>
          [] OTHER                    -> <<None, None, InvalidRankError(selection_rank)>>

\* MatchRank with a default case that leaves the rule as it was.
MatchRank_keeps_rule(selection_rank, col_name) ==
    CASE selection_rank = "Year"  -> <<col_name, "1y", Returned("YYYY")>>
      [] selection_rank = "Month" -> <<col_name, "1m", Returned("YYYY MMMM")>>
      [] selection_rank = "Day"   -> <<col_name, "1d", Returned("YYYY MMM DD")>>
      [] OTHER -> <<group_by_column, group_by_step, InvalidRankError(selection_rank)>>

\* The match statement of apply_dynamic_date_grouping:
\* <<_group_by_column, _group_by_step, the format returned or the error raised>>.
MatchRank(selection_rank, col_name) ==
    CASE selection_rank = "Year"  -> <<col_name, "1y", Returned("YYYY")>>
      [] selection_rank = "Month" -> <<col_name, "1m", Returned("YYYY MMMM")>>
      [] selection_rank = "Day"   -> <<col_name, "1d", Returned("YYYY MMM DD")>>
      [] OTHER                    -> <<None, None, InvalidRankError(selection_rank)>>

\* apply_dynamic_date_grouping with the rank matched before the column is validated.
apply_dynamic_date_grouping_rank_first(selection_rank, col_name) ==
    LET m == MatchRank(selection_rank, col_name)
    IN  IF m[3].kind = "error" \/ ~ColumnMissing(col_name)
        THEN /\ group_by_column' = m[1]
             /\ group_by_step' = m[2]
             /\ ret' = Outcome("apply_dynamic_date_grouping", col_name, selection_rank, m[3])
             /\ UNCHANGED <<session_state, db, data_frame, filter_expressions, agg_expressions>>
        ELSE /\ ret' = Outcome("apply_dynamic_date_grouping", col_name, selection_rank,
                               UnknownColumnError(col_name))
             /\ UNCHANGED <<session_state, db, data_frame, pending>>

apply_dynamic_date_grouping(selection_rank, col_name) ==
    IF ColumnMissing(col_name)
    THEN /\ ret' = Outcome("apply_dynamic_date_grouping", col_name, selection_rank,
                           UnknownColumnError(col_name))
         /\ UNCHANGED <<session_state, db, data_frame, pending>>
    ELSE LET m == MatchRank(selection_rank, col_name)
         IN  /\ group_by_column' = m[1]
             /\ group_by_step' = m[2]
             /\ ret' = Outcome("apply_dynamic_date_grouping", col_name, selection_rank, m[3])
             /\ UNCHANGED <<session_state, db, data_frame, filter_expressions, agg_expressions>>

\* apply_filter with the new predicate put at the head of the list.
apply_filter_prepend(op, col_name, value) ==
    IF ColumnMissing(col_name)
    THEN /\ ret' = Outcome("apply_filter_" \o op, col_name, value,
                           UnknownColumnError(col_name))
         /\ UNCHANGED <<session_state, db, data_frame, pending>>
    ELSE /\ Len(filter_expressions) + Len(agg_expressions) < MaxPending
         /\ filter_expressions' = <<FilterExpr(col_name, op, value)>> \o filter_expressions
         /\ ret' = Outcome("apply_filter_" \o op, col_name, value, Returned(None))
         /\ UNCHANGED <<session_state, db, data_frame, group_by_column, group_by_step, agg_expressions>>

\* The body shared by apply_filter_ge and apply_filter_le.
apply_filter(op, col_name, value) ==
    IF ColumnMissing(col_name)
    THEN /\ ret' = Outcome("apply_filter_" \o op, col_name, value,
                           UnknownColumnError(col_name))
         /\ UNCHANGED <<session_state, db, data_frame, pending>>
    ELSE /\ Len(filter_expressions) + Len(agg_expressions) < MaxPending
         /\ filter_expressions' = Append(filter_expressions, FilterExpr(col_name, op, value))
         /\ ret' = Outcome("apply_filter_" \o op, col_name, value, Returned(None))
         /\ UNCHANGED <<session_state, db, data_frame, group_by_column, group_by_step, agg_expressions>>

apply_filter_ge(col_name, min_value) == apply_filter("ge", col_name, min_value)

apply_filter_le(col_name, max_value) == apply_filter("le", col_name, max_value)

\* apply_aggregation_rule without the validation of its column.
apply_aggregation_rule_unvalidated(col_name, col_func) ==
    LET built == build_summary_expr(col_name, col_func)
    IN  /\ Len(filter_expressions) + Len(agg_expressions) < MaxPending
        /\ agg_expressions' = Append(agg_expressions, built[2])
        /\ ret' = Outcome("apply_aggregation_rule", col_name, col_func, Returned(built[1]))
        /\ UNCHANGED <<session_state, db, data_frame, filter_expressions, group_by_column, group_by_step>>

apply_aggregation_rule(col_name, col_func) ==
    IF ColumnMissing(col_name)
    THEN /\ ret' = Outcome("apply_aggregation_rule", col_name, col_func,
                           UnknownColumnError(col_name))
         /\ UNCHANGED <<session_state, db, data_frame, pending>>
    ELSE LET built == build_summary_expr(col_name, col_func)
         IN  /\ Len(filter_expressions) + Len(agg_expressions) < MaxPending
             /\ agg_expressions' = Append(agg_expressions, built[2])
             /\ ret' = Outcome("apply_aggregation_rule", col_name, col_func, Returned(built[1]))
             /\ UNCHANGED <<session_state, db, data_frame, filter_expressions, group_by_column, group_by_step>>

\* apply_series_rule with the expression appended before the column is validated.
apply_series_rule_append_first(col_name, dtype) ==
    LET sequence_expr == SeriesExpr(col_name, dtype)
    IN  /\ Len(filter_expressions) + Len(agg_expressions) < MaxPending
        /\ agg_expressions' = Append(agg_expressions, sequence_expr)
        /\ ret' = Outcome("apply_series_rule", col_name, dtype,
                          IF ColumnMissing(col_name) THEN UnknownColumnError(col_name)
                          ELSE Returned(sequence_expr.label))
        /\ UNCHANGED <<session_state, db, data_frame, filter_expressions, group_by_column, group_by_step>>

apply_series_rule(col_name, dtype) ==
    IF ColumnMissing(col_name)
    THEN /\ ret' = Outcome("apply_series_rule", col_name, dtype,
                           UnknownColumnError(col_name))
         /\ UNCHANGED <<session_state, db, data_frame, pending>>
    ELSE LET sequence_expr == SeriesExpr(col_name, dtype)
         IN  /\ Len(filter_expressions) + Len(agg_expressions) < MaxPending
             /\ agg_expressions' = Append(agg_expressions, sequence_expr)
             /\ ret' = Outcome("apply_series_rule", col_name, dtype,
                               Returned(sequence_expr.label))
             /\ UNCHANGED <<session_state, db, data_frame, filter_expressions, group_by_column, group_by_step>>

\* resolve_view that keeps the filtered rows as the tracked frame.
resolve_view_in_place ==
    /\ ret' = Outcome("resolve_view", None, None,
                      ResolveView(data_frame, filter_expressions, group_by_column,
                                  group_by_step, agg_expressions))
    /\ data_frame' = IF filter_expressions # <<>>
                     THEN Filter(data_frame, filter_expressions) ELSE data_frame
    /\ UNCHANGED <<session_state, db, pending>>

\* resolve_view that empties the filter list once the filters are applied.
resolve_view_consuming ==
    /\ ret' = Outcome("resolve_view", None, None,
                      ResolveView(data_frame, filter_expressions, group_by_column,
                                  group_by_step, agg_expressions))
    /\ filter_expressions' = <<>>
    /\ UNCHANGED <<session_state, db, data_frame, group_by_column, group_by_step, agg_expressions>>

resolve_view ==
    /\ ret' = Outcome("resolve_view", None, None,
                      ResolveView(data_frame, filter_expressions, group_by_column,
                                  group_by_step, agg_expressions))
    /\ UNCHANGED <<session_state, db, data_frame, pending>>

(***************************************************************************)
(* The database.  A table is the sequence of its records in insertion      *)
(* order.  None given for a number is the NULL cell; a latitude or a       *)
(* longitude is written in tenths (0.5 is 5).  The columns that are not    *)
(* mapped as Optional are NOT NULL, and a primary key is unique: a commit  *)
(* that breaks either raises IntegrityError and stores nothing.            *)
(***************************************************************************)
\* The state of a PolarsView, which no database call touches.
view == <<data_frame, pending>>

\* sqlalchemy.exc.IntegrityError, raised by the commit of a refused insert.
IntegrityError(constraint) ==
    [kind |-> "error", error |-> "IntegrityError", msg |-> <<constraint>>]

\* Country.create_record's ValueError.
CountryCodeError(country_code) ==
    [kind |-> "error", error |-> "ValueError",
     msg |-> <<"Country code '", country_code, "' must be three characters long.">>]

Country(code, name) == [code |-> code, name |-> name]

\* The records of COUNTRY under the key: one at most; <<>> stands for None.
Country_select_by_id(country_id) == SelectSeq(COUNTRY, LAMBDA record : record.code = country_id)

\* Country.create_record without the test of the length of the code.
Country_create_record_unchecked(country_code, country_name) ==
    IF Country_select_by_id(country_code) # <<>>
    THEN /\ ret' = Outcome("Country.create_record", None, <<country_code, country_name>>,
                           IntegrityError("UNIQUE constraint failed: COUNTRY.code"))
         /\ UNCHANGED <<session_state, db, view>>
    ELSE /\ COUNTRY' = Append(COUNTRY, Country(country_code, country_name))
         /\ ret' = Outcome("Country.create_record", None, <<country_code, country_name>>,
                           Returned(None))
         /\ UNCHANGED <<GEO_TAG, GDELT_RECORD, view, session_state>>

Country_create_record(country_code, country_name) ==
    IF Len(country_code) # 3
    THEN /\ ret' = Outcome("Country.create_record", None, <<country_code, country_name>>,
                           CountryCodeError(country_code))
         /\ UNCHANGED <<session_state, db, view>>
    ELSE IF Country_select_by_id(country_code) # <<>>
    THEN /\ ret' = Outcome("Country.create_record", None, <<country_code, country_name>>,
                           IntegrityError("UNIQUE constraint failed: COUNTRY.code"))
         /\ UNCHANGED <<session_state, db, view>>
    ELSE /\ COUNTRY' = Append(COUNTRY, Country(country_code, country_name))
         /\ ret' = Outcome("Country.create_record", None, <<country_code, country_name>>,
                           Returned(None))
         /\ UNCHANGED <<GEO_TAG, GDELT_RECORD, view, session_state>>

GeoTag(geo_id, geo_type, geo_lat, geo_long) ==
    [geo_id |-> geo_id, geo_type |-> geo_type, geo_lat |-> geo_lat, geo_long |-> geo_long]

\* Python truthiness of an int-or-None value.
IntTruthy(value) == value # NULL /\ value # 0

\* The key sqlite gives the next record of a table: one more than the largest rowid.
NextRowId(keys) == IF keys = {} THEN 1 ELSE 1 + (CHOOSE k \in keys : \A other \in keys : other <= k)

\* GeoTag._find_existing_record: the key of the first record with the three values
\* (a comparison with None is IS NULL), or None.
GeoTag_find_existing_record(geo_type, geo_lat, geo_long) ==
    LET geo_record == SelectSeq(GEO_TAG, LAMBDA record :
                          /\ record.geo_type = geo_type
                          /\ record.geo_lat = geo_lat
                          /\ record.geo_long = geo_long)
    IN  IF geo_record # <<>> THEN geo_record[1].geo_id ELSE NULL

GeoTag_create_new_record(geo_type, geo_lat, geo_long) ==
    LET called(out) == Outcome("GeoTag.create_new_record", None,
                               <<geo_type, geo_lat, geo_long>>, out)
        existing_id == GeoTag_find_existing_record(geo_type, geo_lat, geo_long)
    IN  IF geo_type = NULL /\ geo_lat = NULL /\ geo_long = NULL
        THEN /\ ret' = called(Returned(NULL))
             /\ UNCHANGED <<session_state, db, view>>
        ELSE IF IntTruthy(existing_id)
        THEN /\ ret' = called(Returned(existing_id))
             /\ UNCHANGED <<session_state, db, view>>
        ELSE IF geo_type = NULL \/ geo_lat = NULL \/ geo_long = NULL
        THEN /\ ret' = called(IntegrityError("NOT NULL constraint failed: GEO_TAG"))
             /\ UNCHANGED <<session_state, db, view>>
        ELSE LET geo_id == NextRowId({GEO_TAG[i].geo_id : i \in 1..Len(GEO_TAG)})
             IN  /\ Len(GEO_TAG) < MaxRows
                 /\ GEO_TAG' = Append(GEO_TAG, GeoTag(geo_id, geo_type, geo_lat, geo_long))
                 /\ ret' = called(Returned(geo_id))
                 /\ UNCHANGED <<COUNTRY, GDELT_RECORD, view, session_state>>

\* records: a list of <<geo_type, geo_lat, geo_long>>, none with a key of its own.
GeoTag_create_mass_records(records) ==
    LET called(out) == Outcome("GeoTag.create_mass_records", None, records, out)
        first_id == NextRowId({GEO_TAG[i].geo_id : i \in 1..Len(GEO_TAG)})
    IN  IF \E i \in 1..Len(records), j \in 1..3 : records[i][j] = NULL
        THEN /\ ret' = called(IntegrityError("NOT NULL constraint failed: GEO_TAG"))
             /\ UNCHANGED <<session_state, db, view>>
        ELSE /\ Len(GEO_TAG) + Len(records) <= MaxRows
             /\ GEO_TAG' = GEO_TAG \o [i \in 1..Len(records) |->
                                GeoTag(first_id + i - 1, records[i][1], records[i][2],
                                       records[i][3])]
             /\ ret' = called(Returned(None))
             /\ UNCHANGED <<COUNTRY, GDELT_RECORD, view, session_state>>

\* A Date column of sqlite holds the ISO text of the date; the cast to pl.Date of a
\* selection reads the date back from the text.
DateText(date) == <<"ISO", date>>

CastDate(text) == text[2]

\* The columns select_all and select_by_country read, in the order of the query.
GdeltColumns ==
    <<"date", "source_id", "target_id", "cameo_code", "num_events", "num_arts",
      "quad_class", "goldstein", "source_record_id", "target_record_id",
      "action_record_id">>

\* The row of a stored record as the selections return it.
GdeltRow(record) ==
    <<CastDate(record.date), record.source_id, record.target_id, record.cameo_code,
      record.num_events, record.num_arts, record.quad_class, record.goldstein,
      record.source_record_id, record.target_record_id, record.action_record_id>>

\* source, target: country codes, resolved with Country.select_by_id; the optional
\* arguments are left at None.
GdeltRecord_create_record(date, source, target, cameo_code, num_events, num_arts, quad_class) ==
    LET called(out) == Outcome("GdeltRecord.create_record", None, <<date, source, target>>, out)
        source_entry == Country_select_by_id(source)
        target_entry == Country_select_by_id(target)
    IN  IF source_entry = <<>> \/ target_entry = <<>>
        THEN /\ ret' = called(IntegrityError("NOT NULL constraint failed: GDELT_RECORD"))
             /\ UNCHANGED <<session_state, db, view>>
        ELSE /\ Len(GDELT_RECORD) < MaxRows
             /\ GDELT_RECORD' = Append(GDELT_RECORD,
                    [record_key |-> NextRowId({GDELT_RECORD[i].record_key :
                                                  i \in 1..Len(GDELT_RECORD)}),
                     date |-> DateText(date),
                     source_id |-> source_entry[1].code,
                     target_id |-> target_entry[1].code,
                     cameo_code |-> cameo_code, num_events |-> num_events,
                     num_arts |-> num_arts, quad_class |-> quad_class,
                     goldstein |-> NULL, source_record_id |-> NULL,
                     target_record_id |-> NULL, action_record_id |-> NULL])
             /\ ret' = called(Returned(None))
             /\ UNCHANGED <<COUNTRY, GEO_TAG, view, session_state>>

\* select_by_country with the condition on the source only.
GdeltRecord_select_by_country_source_only(source_country, target_country) ==
    LET selected == SelectSeq(GDELT_RECORD, LAMBDA record : record.source_id = source_country)
    IN  /\ ret' = Outcome("GdeltRecord.select_by_country", None,
                          <<source_country, target_country>>,
                          Table(GdeltColumns, [i \in 1..Len(selected) |-> GdeltRow(selected[i])]))
        /\ UNCHANGED <<session_state, db, view>>

\* source_country, target_country: a Country stands here for its code, the one
\* attribute the method reads; target_country may be None.
GdeltRecord_select_by_country(source_country, target_country) ==
    LET selected == SelectSeq(GDELT_RECORD, LAMBDA record :
                        /\ record.source_id = source_country
                        /\ target_country # None => record.target_id = target_country)
    IN  /\ ret' = Outcome("GdeltRecord.select_by_country", None,
                          <<source_country, target_country>>,
                          Table(GdeltColumns, [i \in 1..Len(selected) |-> GdeltRow(selected[i])]))
        /\ UNCHANGED <<session_state, db, view>>

(***************************************************************************)
(* The calls a caller makes.                                               *)
(***************************************************************************)
AllCols == ColumnSet \cup UnknownCols

Ranks == {"Year", "Month", "Day", "Week", None}

Reducers == {"sum", "count"}

Dtypes == {"float", "int"}

\* The bounds a filter is given: a date for a date column, a number otherwise.
FilterValues(col_name) == IF col_name = "date" THEN {20000131} ELSE {2}

Next ==
    \/ \E c \in AllCols : validate_column_name(c)
    \/ \E c \in AllCols : extract_data_spread(c)
    \/ \E c \in NumericCols \cup UnknownCols : extract_data_total(c)
    \/ \E r \in Ranks, c \in DateCols \cup UnknownCols : apply_dynamic_date_grouping(r, c)
    \/ \E c \in AllCols : \E v \in FilterValues(c) : apply_filter_ge(c, v)
    \/ \E c \in AllCols : \E v \in FilterValues(c) : apply_filter_le(c, v)
    \/ \E c \in NumericCols \cup UnknownCols, f \in Reducers : apply_aggregation_rule(c, f)
    \/ \E c \in NumericCols \cup UnknownCols, t \in Dtypes : apply_series_rule(c, t)
    \/ resolve_view

Spec == Init /\ [][Next]_vars

(***************************************************************************)
(* The calls made on the database.                                         *)
(***************************************************************************)
\* Country codes of three characters and of other lengths, and country names.
CountryCodes == {"NZL", "AUS", "NZ", "AUST"}

CountryNames == {"New Zealand", "Australia"}

\* The values a geo tag is made from: complete, partly missing and all missing.
GeoValues == {<<1, 5, 8>>, <<2, 6, 9>>, <<NULL, 5, 8>>, <<NULL, NULL, NULL>>}

\* The lists a bulk insert is given: one record, or the same complete record twice.
GeoRecordLists ==
    {<<v>> : v \in GeoValues} \cup {<<v, v>> : v \in {w \in GeoValues : \A j \in 1..3 : w[j] # NULL}}

InitDb ==
    /\ data_frame = <<>>
    /\ filter_expressions = <<>>
    /\ group_by_column = None
    /\ group_by_step = None
    /\ agg_expressions = <<>>
    /\ ret = Outcome("__init__", None, None, Returned(None))
    /\ COUNTRY = <<>>
    /\ GEO_TAG = <<>>
    /\ GDELT_RECORD = <<>>
    /\ session_state = init_session

NextDb ==
    \/ \E code \in CountryCodes, name \in CountryNames : Country_create_record(code, name)
    \/ \E v \in GeoValues : GeoTag_create_new_record(v[1], v[2], v[3])
    \/ \E records \in GeoRecordLists : GeoTag_create_mass_records(records)
    \/ \E source, target \in {"NZL", "AUS"} :
          GdeltRecord_create_record(20000101, source, target, 1, 2, 3, 4)
    \/ \E source \in {"NZL", "AUS"}, target \in {"NZL", "AUS", None} :
          GdeltRecord_select_by_country(source, target)

SpecDb == InitDb /\ [][NextDb]_vars

(***************************************************************************)
(* The pages.  A run of a page's script is one step: streamlit runs the    *)
(* script from its first line at every interaction, with the values of     *)
(* the widgets as they stand and TRUE for the button that was clicked,     *)
(* and ends the run at the first exception, keeping what the run had       *)
(* written to the session.  The PolarsView of a run is local to the run.   *)
(***************************************************************************)
GdeltIdx(col_name) == CHOOSE i \in 1..Len(GdeltColumns) : GdeltColumns[i] = col_name

GdeltColumn(table, col_name) ==
    [i \in 1..Len(table.rows) |-> table.rows[i][GdeltIdx(col_name)]]

\* Reading an attribute of None.
AttributeError(attribute) ==
    [kind |-> "error", error |-> "AttributeError",
     msg |-> <<"'NoneType' object has no attribute '", attribute, "'">>]

\* What GdeltRecord.select_by_country gives a page: the table of the selection, or
\* the error of reading the code of no country.
SelectedByCountry(source_country, target_country) ==
    IF source_country = None THEN AttributeError("code")
    ELSE LET selected == SelectSeq(GDELT_RECORD, LAMBDA record :
                             /\ record.source_id = source_country
                             /\ target_country # None => record.target_id = target_country)
         IN  Table(GdeltColumns, [i \in 1..Len(selected) |-> GdeltRow(selected[i])])

\* The widgets of the filter panel that are moved away from their default value.
Moves == {"none", "start", "events", "goldstein"}

\* The values the widgets of the filter panel return: the defaults are the session's
\* dates, the session's max_events and the whole Goldstein range.
WidgetValues(session, moved) ==
    [filt_start    |-> IF moved = "start" THEN session.max_date ELSE session.min_date,
     filt_end      |-> session.max_date,
     max_events    |-> IF moved = "events" THEN 0 ELSE session.max_events,
     min_goldstein |-> IF moved = "goldstein" THEN 0 ELSE -10,
     max_goldstein |-> 10]

\* The filters render_filter_panel registers on the view, in the order of its calls.
render_filter_panel(session, moved) ==
    LET w == WidgetValues(session, moved)
    IN  <<FilterExpr("date", "ge", w.filt_start),
          FilterExpr("date", "le", w.filt_end),
          FilterExpr("num_events", "le", w.max_events),
          FilterExpr("goldstein", "ge", w.min_goldstein),
          FilterExpr("goldstein", "le", w.max_goldstein)>>

\* A predicate on a row of a selection: a comparison with a null is null.
GdeltPredicate(row, pred) ==
    LET v == row[GdeltIdx(pred.col)]
    IN  IF v = NULL \/ pred.value = NULL THEN "null"
        ELSE IF pred.op = "ge" THEN (IF v >= pred.value THEN "true" ELSE "false")
        ELSE (IF v <= pred.value THEN "true" ELSE "false")

\* resolve_view of a view over a selection with filters and no rule: the rows for
\* which every predicate is true.
PageResolveView(table, filters) ==
    Table(GdeltColumns,
          IF filters # <<>>
          THEN SelectSeq(table.rows, LAMBDA row :
                   \A i \in 1..Len(filters) : GdeltPredicate(row, filters[i]) = "true")
          ELSE table.rows)

\* DataFrame.sort('date'): the rows in ascending order of the date.
RECURSIVE SortByDate(_)
SortByDate(rows) ==
    IF rows = <<>> THEN <<>>
    ELSE LET idx   == GdeltIdx("date")
             first == CHOOSE i \in 1..Len(rows) :
                          /\ \A j \in 1..Len(rows) : rows[i][idx] <= rows[j][idx]
                          /\ \A j \in 1..(i - 1) : rows[j][idx] # rows[i][idx]
         IN  <<rows[first]>> \o SortByDate(SubSeq(rows, 1, first - 1)
                                           \o SubSeq(rows, first + 1, Len(rows)))

\* A run of pages/visualise_longitudinal.py.  source_country: the country of the
\* selection box (its code) or None; clicked: 'Import selection' was clicked; moved:
\* the widget of the filter panel that is not at its default.
visualise_longitudinal(source_country, clicked, moved) ==
    LET called(out) == Outcome("visualise_longitudinal", source_country, <<clicked, moved>>, out)
        selected == IF clicked
                    THEN [session_state EXCEPT !.source_country = source_country]
                    ELSE session_state
        fetched  == SelectedByCountry(source_country, None)
    IN  /\ IF clicked /\ fetched.kind = "error"
           THEN /\ session_state' = selected
                /\ ret' = called(fetched)
           ELSE LET imported == IF clicked THEN [selected EXCEPT !.plot_table = fetched]
                                ELSE selected
                IN  IF imported.plot_table = NoTable
                    THEN /\ session_state' = imported
                         /\ ret' = called(Returned(None))
                    ELSE LET dates   == GdeltColumn(imported.plot_table, "date")
                             events  == GdeltColumn(imported.plot_table, "num_events")
                             spread  == [imported EXCEPT !.min_date = SeriesMin(dates),
                                                         !.max_date = SeriesMax(dates),
                                                         !.max_events = SeriesMax(events)]
                             disp_df == PageResolveView(spread.plot_table,
                                                        render_filter_panel(spread, moved))
                         IN  /\ session_state' = spread
                             /\ ret' = called(IF spread.source_country = None
                                              THEN AttributeError("name")
                                              ELSE disp_df)
        /\ UNCHANGED <<db, view>>

\* A run of pages/explore_db_disk.py with its date inputs and its aggregation controls
\* as they are drawn.  source_country, target_country: the countries of the two
\* selection boxes (their codes) or None; clicked: 'Import selection' was clicked.
explore_db_disk(source_country, target_country, clicked) ==
    LET called(out) == Outcome("explore_db_disk", source_country, <<target_country, clicked>>, out)
        df == SelectedByCountry(source_country, target_country)
    IN  /\ IF clicked /\ df.kind = "error"
           THEN /\ ret' = called(df)
                /\ UNCHANGED session_state
           ELSE LET imported ==
                        IF clicked
                        THEN [session_state EXCEPT
                                 !.min_date = SeriesMin(GdeltColumn(df, "date")),
                                 !.max_date = SeriesMax(GdeltColumn(df, "date")),
                                 !.max_events = SeriesSum(GdeltColumn(df, "num_events")),
                                 !.explore_table = df]
                        ELSE session_state
                IN  /\ session_state' = imported
                    /\ ret' = called(
                          IF imported.explore_table = NoTable THEN Returned(None)
                          ELSE [kind |-> "page",
                                min_date |-> imported.min_date,
                                max_date |-> imported.max_date,
                                table |-> Table(GdeltColumns,
                                                SortByDate(imported.explore_table.rows))])
        /\ UNCHANGED <<db, view>>

\* The records the database of the pages is filled from: date, source, target,
\* num_events and goldstein, which one record lacks.
PageRecords ==
    {<<20000101, "NZL", "AUS", 2, 5>>, <<20000131, "NZL", "NZL", 3, NULL>>,
     <<20010201, "AUS", "NZL", 1, -3>>}

\* GDELT_RECORD after the records of a list were inserted in turn.
Stored(records) ==
    [i \in 1..Len(records) |->
        [record_key |-> i, date |-> DateText(records[i][1]),
         source_id |-> records[i][2], target_id |-> records[i][3],
         cameo_code |-> 1, num_events |-> records[i][4], num_arts |-> 3,
         quad_class |-> 4, goldstein |-> records[i][5], source_record_id |-> NULL,
         target_record_id |-> NULL, action_record_id |-> NULL]]

\* A session opened on a database that holds two countries and some records.
InitPage ==
    /\ data_frame = <<>>
    /\ filter_expressions = <<>>
    /\ group_by_column = None
    /\ group_by_step = None
    /\ agg_expressions = <<>>
    /\ ret = Outcome("init_session", None, None, Returned(None))
    /\ COUNTRY = <<Country("NZL", "New Zealand"), Country("AUS", "Australia")>>
    /\ GEO_TAG = <<>>
    /\ GDELT_RECORD \in {Stored(records) : records \in SeqsUpTo(PageRecords, MaxRows)}
    /\ session_state = init_session

\* Country.select_all with the None the pages put in front: the choices of a
\* selection box.
country_list == {None} \cup {COUNTRY[i].code : i \in 1..Len(COUNTRY)}

NextPage ==
    \/ \E source_country \in country_list, clicked \in BOOLEAN, moved \in Moves :
          visualise_longitudinal(source_country, clicked, moved)
    \/ \E source_country \in country_list, clicked \in BOOLEAN :
          \E target_country \in (IF source_country = None THEN {None} ELSE country_list) :
             explore_db_disk(source_country, target_country, clicked)

SpecPage == InitPage /\ [][NextPage]_vars

(***************************************************************************)
(* Properties.  What the documentation says is written here independently  *)
(* of the operators above: a predicate holds of a row when its cell is     *)
(* present and compares as stated, and a rule's bucket is the calendar     *)
(* year, month or day of the date.                                         *)
(***************************************************************************)
Resolved == ret.op = "resolve_view"

NoRule == group_by_column = None /\ group_by_step = None

HasRule == group_by_column # None /\ group_by_step # None

\* The methods that validate their column before they register anything.
Registrations == {"apply_filter_ge", "apply_filter_le", "apply_dynamic_date_grouping",
                  "apply_aggregation_rule", "apply_series_rule"}

ValidRanks == {"Year", "Month", "Day"}

\* column >= bound for apply_filter_ge, column <= bound for apply_filter_le.
Satisfies(row, pred) ==
    LET cell == row[ColIdx(pred.col)]
    IN  /\ cell # NULL
        /\ pred.op = "ge" => cell >= pred.value
        /\ pred.op = "le" => cell <= pred.value

\* The positions of the source rows that satisfy every pending predicate.
Kept == {i \in 1..Len(data_frame) :
            \A k \in 1..Len(filter_expressions) : Satisfies(data_frame[i], filter_expressions[k])}

\* The source rows at the positions of S, in source order.
RowsAt(S) == LET at == SortedSeq(S) IN [n \in 1..Len(at) |-> data_frame[at[n]]]

\* The bucket size each rank stands for, and the format it returns.
DocumentedUnit(rank) ==
    CASE rank = "Year" -> "year" [] rank = "Month" -> "month" [] rank = "Day" -> "day"

DocumentedFormat(rank) ==
    CASE rank = "Year" -> "YYYY" [] rank = "Month" -> "YYYY MMMM" [] rank = "Day" -> "YYYY MMM DD"

\* The rank whose rule is pending.
PendingRank == CHOOSE rank \in ValidRanks : MatchRank(rank, group_by_column)[2] = group_by_step

\* The calendar bucket of a date: <<year>>, <<year, month>> or <<year, month, day>>.
CalendarBucket(d, unit) ==
    CASE unit = "year"  -> <<d \div 10000>>
      [] unit = "month" -> <<d \div 10000, (d \div 100) % 100>>
      [] unit = "day"   -> <<d \div 10000, (d \div 100) % 100, d % 100>>

\* A reduction over the rows at the positions of S, computed on the set.
Reduction(func, col_name, S) ==
    LET present == {i \in S : data_frame[i][ColIdx(col_name)] # NULL}
        RECURSIVE Total(_)
        Total(T) == IF T = {} THEN 0
                    ELSE LET i == CHOOSE x \in T : TRUE
                         IN  data_frame[i][ColIdx(col_name)] + Total(T \ {i})
    IN  CASE func = "sum"   -> Total(present)
          [] func = "count" -> Cardinality(present)

\* The bucket column of the kept rows ascends, and no two expressions share a label.
WellFormedGrouping ==
    /\ HasRule
    /\ IsSorted(Column(RowsAt(Kept), group_by_column))
    /\ ~HasDuplicates(Labels(agg_expressions))

\* C1: a registration call whose column is not in the source table fails with the
\* unknown-column error and leaves the filter list, the aggregation list and the
\* bucketing rule as they were.
C1_UnknownColumnLeavesNoMutation ==
    [][(ret'.op \in Registrations /\ ret'.col \notin ColumnSet)
          => (ret'.out = UnknownColumnError(ret'.col) /\ UNCHANGED pending)]_vars

C1_Witness ==
    /\ ret.op = "apply_series_rule"
    /\ ret.col \notin ColumnSet
    /\ ret.out = UnknownColumnError(ret.col)
    /\ filter_expressions # <<>>
    /\ agg_expressions # <<>>
    /\ HasRule

\* C2: with a pending rule and pending reductions, resolve_view returns one row per
\* calendar bucket (year, month or day, per the rule) that holds a kept row, and each
\* aggregation column of that row is the reduction over the kept rows of that bucket.
C2_OneRowPerCalendarBucket ==
    (/\ Resolved
     /\ WellFormedGrouping
     /\ agg_expressions # <<>>
     /\ \A k \in 1..Len(agg_expressions) : agg_expressions[k].func # "implode")
    => /\ ret.out.kind = "table"
       /\ LET unit    == DocumentedUnit(PendingRank)
              idx     == ColIdx(group_by_column)
              In(b)   == {i \in Kept : CalendarBucket(data_frame[i][idx], unit) = b}
              buckets == {CalendarBucket(data_frame[i][idx], unit) : i \in Kept}
          IN  /\ Len(ret.out.rows) = Cardinality(buckets)
              /\ \A b \in buckets : \E r \in 1..Len(ret.out.rows) :
                    /\ CalendarBucket(ret.out.rows[r][1], unit) = b
                    /\ \A k \in 1..Len(agg_expressions) :
                          ret.out.rows[r][k + 1] =
                              Reduction(agg_expressions[k].func, agg_expressions[k].col, In(b))

\* C3: with pending filters and no rule, resolve_view returns exactly the source rows
\* that satisfy every predicate, with all the original columns.
C3_FiltersKeepExactlySatisfyingRows ==
    (Resolved /\ filter_expressions # <<>> /\ NoRule)
    => ret.out = Table(Columns, RowsAt(Kept))

C3_Witness ==
    /\ Resolved
    /\ Len(filter_expressions) = 2
    /\ NoRule
    /\ ret.out.kind = "table"
    /\ ret.out.rows # <<>>
    /\ Len(ret.out.rows) < Len(data_frame)

\* C4: with no pending filter and no rule, resolve_view returns the source table.
C4_NothingPendingReturnsSource ==
    (Resolved /\ filter_expressions = <<>> /\ NoRule)
    => ret.out = Table(Columns, data_frame)

C4_Witness ==
    /\ Resolved
    /\ filter_expressions = <<>>
    /\ NoRule
    /\ Len(data_frame) = MaxRows
    /\ ret.out.kind = "table"
    /\ \E i \in 1..Len(data_frame) : data_frame[i][ColIdx("a")] = NULL

\* C5: with no rule pending, resolve_view ignores the pending aggregation and sequence
\* expressions: it returns what the same view with an empty aggregation list returns.
C5_NoRuleIgnoresAggregations ==
    (Resolved /\ NoRule)
    => ret.out = ResolveView(data_frame, filter_expressions, None, None, <<>>)

C5_Witness ==
    /\ Resolved
    /\ NoRule
    /\ Len(agg_expressions) = 2
    /\ ret.out = Table(Columns, RowsAt(Kept))
    /\ ret.out.rows # <<>>

\* C6: resolve_view changes none of the pending state, and a resolve_view that follows
\* a resolve_view returns the same table.
C6_ResolveKeepsPendingState ==
    [][/\ ret'.op = "resolve_view" => UNCHANGED pending
       /\ (ret.op = "resolve_view" /\ ret'.op = "resolve_view") => ret'.out = ret.out]_vars

C6_Witness ==
    /\ Resolved
    /\ filter_expressions # <<>>
    /\ agg_expressions # <<>>
    /\ HasRule
    /\ ret.out.kind = "table"
    /\ ret.out.rows # <<>>

\* C7: apply_dynamic_date_grouping with an existing column and a rank other than Year,
\* Month or Day fails with the invalid-rank error that embeds the value, and leaves the
\* rule unset and the two lists unchanged.
C7_InvalidRankClearsRule ==
    [][(/\ ret'.op = "apply_dynamic_date_grouping"
        /\ ret'.col \in ColumnSet
        /\ ret'.arg \notin ValidRanks)
          => /\ ret'.out = InvalidRankError(ret'.arg)
             /\ ret'.out.msg[2] = (IF ret'.arg = None THEN "None" ELSE ret'.arg)
             /\ group_by_column' = None
             /\ group_by_step' = None
             /\ UNCHANGED <<filter_expressions, agg_expressions>>]_vars

C7_Witness ==
    /\ ret.op = "apply_dynamic_date_grouping"
    /\ ret.col \in ColumnSet
    /\ ret.arg = None
    /\ ret.out = InvalidRankError(None)
    /\ NoRule
    /\ filter_expressions # <<>>
    /\ agg_expressions # <<>>

\* C8: apply_dynamic_date_grouping with rank Year, Month or Day and an existing column
\* succeeds, sets the bucketing column, sets the bucket size to one year, one month or
\* one day, and returns the format YYYY, YYYY MMMM or YYYY MMM DD.
C8_ValidRankSetsRule ==
    (/\ ret.op = "apply_dynamic_date_grouping"
     /\ ret.col \in ColumnSet
     /\ ret.arg \in ValidRanks)
    => /\ ret.out = Returned(DocumentedFormat(ret.arg))
       /\ group_by_column = ret.col
       /\ group_by_step # None
       /\ EveryUnit(group_by_step) = DocumentedUnit(ret.arg)

\* C9: with the Month rule, two kept rows end up in the same output row exactly when
\* their dates fall in the same calendar month.
C9_MonthRuleGroupsByCalendarMonth ==
    (/\ Resolved
     /\ WellFormedGrouping
     /\ PendingRank = "Month")
    => /\ ret.out.kind = "table"
       /\ LET idx == ColIdx(group_by_column)
              \* the output row a date ends up in: the last window that starts by it
              RowOf(d) == CHOOSE r \in 1..Len(ret.out.rows) :
                              /\ ret.out.rows[r][1] <= d
                              /\ \A q \in 1..Len(ret.out.rows) :
                                    ret.out.rows[q][1] <= d => ret.out.rows[q][1] <= ret.out.rows[r][1]
          IN  \A i, j \in Kept :
                 (CalendarBucket(data_frame[i][idx], "month")
                    = CalendarBucket(data_frame[j][idx], "month"))
                 <=> RowOf(data_frame[i][idx]) = RowOf(data_frame[j][idx])

\* C10: extract_data_spread and extract_data_total called with a column that is not in
\* the source table fail with the error validate_column_name raises.
C10_ExtractionValidatesFirst ==
    (ret.op \in {"extract_data_spread", "extract_data_total"} /\ ret.col \notin ColumnSet)
    => ret.out = UnknownColumnError(ret.col)

FilterOps == {"apply_filter_ge", "apply_filter_le"}

\* The last call returned rather than raised.
Succeeded == ret.out.kind = "value"

\* C11: a successful apply_filter_ge / apply_filter_le call appends exactly the
\* predicate (column, operator, bound) of that call to the end of the filter list and
\* leaves the aggregation list and the bucketing rule alone; no other step changes the
\* filter list.  Hence after N successful calls the list holds the N predicates in
\* call order.
C11_FiltersAreAdditive ==
    [][IF ret'.op \in FilterOps /\ Succeeded'
       THEN /\ filter_expressions' =
                   Append(filter_expressions,
                          [col   |-> ret'.col,
                           op    |-> IF ret'.op = "apply_filter_ge" THEN "ge" ELSE "le",
                           value |-> ret'.arg])
            /\ UNCHANGED <<agg_expressions, group_by_column, group_by_step>>
       ELSE filter_expressions' = filter_expressions]_vars

\* Two successful filter calls with different operators, made while a rule is pending.
C11_Witness ==
    /\ ret.op = "apply_filter_le" /\ Succeeded
    /\ HasRule
    /\ Len(filter_expressions) = 2
    /\ filter_expressions[1].op = "ge"
    /\ filter_expressions[2] = [col |-> ret.col, op |-> "le", value |-> ret.arg]

\* C12: a successful apply_aggregation_rule(col, reducer) appends exactly one expression,
\* the reducer over the column under the label '<reducer name>_<col>', and returns that
\* label; a different reducer registered earlier on the same column has a different
\* label and a different expression, and the list keeps call order.
C12_AggregationRuleAppendsLabelled ==
    [][(ret'.op = "apply_aggregation_rule" /\ Succeeded') =>
          LET n   == Len(agg_expressions)
              new == agg_expressions'[n + 1]
          IN  /\ Len(agg_expressions') = n + 1
              /\ SubSeq(agg_expressions', 1, n) = agg_expressions
              /\ new.func = ret'.arg
              /\ new.col = ret'.col
              /\ new.label = ret'.arg \o "_" \o ret'.col
              /\ ret'.out.value = new.label
              /\ \A k \in 1..n :
                     (/\ agg_expressions[k].func \in Reducers
                      /\ agg_expressions[k].col = new.col
                      /\ agg_expressions[k].func # new.func)
                     => /\ agg_expressions[k].label # new.label
                        /\ agg_expressions[k] # new]_vars

\* Two different reducers registered on the same column, the second just now.
C12_Witness ==
    /\ ret.op = "apply_aggregation_rule" /\ Succeeded
    /\ ret.out.value = "count_a"
    /\ Len(agg_expressions) = 2
    /\ agg_expressions[1].func = "sum" /\ agg_expressions[1].col = "a"
    /\ agg_expressions[2].func = "count" /\ agg_expressions[2].col = "a"

\* For each output row, the positions of the kept rows that make up its group: those
\* whose date is in the row's window, the last window to start by the date.
Groups ==
    LET idx == ColIdx(group_by_column)
        key == [r \in 1..Len(ret.out.rows) |-> ret.out.rows[r][1]]
    IN  [r \in 1..Len(key) |->
            {i \in Kept : /\ key[r] <= data_frame[i][idx]
                          /\ \A q \in 1..Len(key) :
                                key[q] <= data_frame[i][idx] => key[q] <= key[r]}]

\* The source rows that satisfy every pending predicate, in source order.
KeptRows ==
    SelectSeq(data_frame, LAMBDA row :
        \A k \in 1..Len(filter_expressions) : Satisfies(row, filter_expressions[k]))

\* In a resolved grouping, the cell of every sequence expression holds, for its output
\* row, every value of the group in row order, each as the expression's dtype.  The
\* group of an output row is made of the kept rows whose date is in the row's window,
\* the last window to start by the date.
SeriesCells ==
    (/\ Resolved
     /\ HasRule
     /\ \E k \in 1..Len(agg_expressions) : agg_expressions[k].func = "implode"
     /\ ~HasDuplicates(Labels(agg_expressions))
     /\ IsSorted(Column(KeptRows, group_by_column)))
    => /\ ret.out.kind = "table"
       /\ LET kept == KeptRows
              idx  == ColIdx(group_by_column)
              key  == [r \in 1..Len(ret.out.rows) |-> ret.out.rows[r][1]]
              InWindow(row, r) ==
                  /\ key[r] <= row[idx]
                  /\ \A q \in 1..Len(key) : key[q] <= row[idx] => key[q] <= key[r]
          IN  \A r \in 1..Len(key), k \in 1..Len(agg_expressions) :
                 agg_expressions[k].func = "implode" =>
                    LET group == SelectSeq(kept, LAMBDA row : InWindow(row, r))
                        cidx  == ColIdx(agg_expressions[k].col)
                    IN  ret.out.rows[r][1 + k] =
                           [n \in 1..Len(group) |->
                               <<agg_expressions[k].dtype, group[n][cidx]>>]

\* C13: a successful apply_series_rule(col, dtype) appends exactly one expression, the
\* column cast to dtype and imploded under the label '<col>_implode', and returns that
\* label; when the view is resolved, the expression yields per group one sequence that
\* holds all of the group's values cast to dtype.
C13_SeriesRuleImplodesGroup ==
    [][/\ (ret'.op = "apply_series_rule" /\ Succeeded') =>
              LET n   == Len(agg_expressions)
                  new == agg_expressions'[n + 1]
              IN  /\ Len(agg_expressions') = n + 1
                  /\ SubSeq(agg_expressions', 1, n) = agg_expressions
                  /\ new.func = "implode"
                  /\ new.col = ret'.col
                  /\ new.dtype = ret'.arg
                  /\ new.label = ret'.col \o "_implode"
                  /\ ret'.out.value = new.label
       /\ SeriesCells']_vars

\* A resolved grouping whose float sequence holds the two values of one group.
C13_Witness ==
    /\ Resolved /\ WellFormedGrouping
    /\ ret.out.kind = "table"
    /\ Len(agg_expressions) >= 1
    /\ agg_expressions[1] = [func |-> "implode", col |-> "a", dtype |-> "float",
                             label |-> "a_implode"]
    /\ \E r \in 1..Len(ret.out.rows) : ret.out.rows[r][2] = <<<<"float", 1>>, <<"float", 2>>>>

\* C14: no PolarsView operation changes the source table: its rows are the same after
\* every step as before it.
C14_SourceTableNeverChanges == [][data_frame' = data_frame]_vars

\* A resolved view that dropped rows, with the source rows all still in place.
C14_Witness ==
    /\ Resolved
    /\ ret.out.kind = "table"
    /\ filter_expressions # <<>>
    /\ Len(data_frame) = MaxRows
    /\ Len(ret.out.rows) < Len(data_frame)

\* C15: every column a pending filter predicate, the bucketing rule or a pending
\* reduction or sequence expression refers to is a column of the source table.
C15_PendingColumnsExist ==
    /\ \A k \in 1..Len(filter_expressions) : filter_expressions[k].col \in ColumnSet
    /\ group_by_column # None => group_by_column \in ColumnSet
    /\ \A k \in 1..Len(agg_expressions) : agg_expressions[k].col \in ColumnSet

\* A filter, a rule and an expression are pending, and the last call named a column
\* the table lacks.
C15_Witness ==
    /\ filter_expressions # <<>>
    /\ HasRule
    /\ agg_expressions # <<>>
    /\ ret.op \in Registrations
    /\ ret.col \notin ColumnSet

\* C16: apply_dynamic_date_grouping checks its column before its rank: with a column
\* the table lacks it fails with the unknown-column error whatever the rank is, and the
\* rule set earlier stays as it was.
C16_GroupingValidatesColumnFirst ==
    [][(ret'.op = "apply_dynamic_date_grouping" /\ ret'.col \notin ColumnSet)
       => /\ ret'.out = UnknownColumnError(ret'.col)
          /\ UNCHANGED <<group_by_column, group_by_step>>]_vars

\* A call with an unknown column and a rank that is not supported, made while a rule
\* is pending.
C16_Witness ==
    /\ ret.op = "apply_dynamic_date_grouping"
    /\ ret.col \notin ColumnSet
    /\ ret.arg \notin ValidRanks
    /\ HasRule

\* C20: resolve_view applies the filters, then the grouping, then the reductions,
\* whatever the order the calls were made in: in every state a resolve leaves behind,
\* however the pending filters, rule and expressions were interleaved on the way to
\* it, the output rows stand for the rows that pass every filter and for no others
\* (each kept row is in exactly the group of its window and no group is empty), and
\* every sum and count is taken over the kept rows of its group.
C20_FilterBeforeGroupBeforeAggregate ==
    (Resolved /\ WellFormedGrouping)
    => /\ ret.out.kind = "table"
       /\ LET groups == Groups
          IN  /\ Kept = UNION {groups[r] : r \in 1..Len(groups)}
              /\ \A r \in 1..Len(groups) : groups[r] # {}
              /\ \A r \in 1..Len(groups), k \in 1..Len(agg_expressions) :
                    agg_expressions[k].func \in Reducers =>
                       ret.out.rows[r][1 + k] =
                          Reduction(agg_expressions[k].func, agg_expressions[k].col, groups[r])

\* A resolved yearly sum over two rows of one year, of which a filter on the summed
\* column keeps one: the sum is that of the kept row.
C20_Witness ==
    /\ Resolved /\ WellFormedGrouping
    /\ data_frame = <<<<20000101, 1>>, <<20000131, 2>>>>
    /\ filter_expressions = <<[col |-> "a", op |-> "ge", value |-> 2]>>
    /\ group_by_step = "1y"
    /\ Labels(agg_expressions) = <<"sum_a">>
    /\ ret.out = Table(<<"date", "sum_a">>, <<<<20000101, 2>>>>)

(***************************************************************************)
(* Properties of the database classes.                                     *)
(***************************************************************************)
\* The positions of the GEO_TAG records that hold the three values.
TaggedAs(values) ==
    {i \in 1..Len(GEO_TAG) :
        <<GEO_TAG[i].geo_type, GEO_TAG[i].geo_lat, GEO_TAG[i].geo_long>> = values}

\* No two GEO_TAG records hold the same three values.
NoSharedGeoValues ==
    \A i, j \in 1..Len(GEO_TAG) :
        i # j => <<GEO_TAG[i].geo_type, GEO_TAG[i].geo_lat, GEO_TAG[i].geo_long>>
                 # <<GEO_TAG[j].geo_type, GEO_TAG[j].geo_lat, GEO_TAG[j].geo_long>>

\* C17: GeoTag.create_new_record called with three values that are all None returns
\* None and inserts nothing; called with values a record already holds it returns that
\* record's key and inserts nothing; otherwise it inserts one record with the values
\* and returns its new key.  Hence a call never makes two records share their values.
C17_CreateNewRecordIsIdempotent ==
    [][ret'.op = "GeoTag.create_new_record" =>
          LET values == ret'.arg
              n      == Len(GEO_TAG)
          IN  /\ ret'.out.kind = "value"
              /\ IF values = <<NULL, NULL, NULL>>
                 THEN ret'.out.value = NULL /\ GEO_TAG' = GEO_TAG
                 ELSE IF TaggedAs(values) # {}
                 THEN /\ \E i \in TaggedAs(values) : ret'.out.value = GEO_TAG[i].geo_id
                      /\ GEO_TAG' = GEO_TAG
                 ELSE /\ Len(GEO_TAG') = n + 1
                      /\ SubSeq(GEO_TAG', 1, n) = GEO_TAG
                      /\ <<GEO_TAG'[n + 1].geo_type, GEO_TAG'[n + 1].geo_lat,
                            GEO_TAG'[n + 1].geo_long>> = values
                      /\ ret'.out.value = GEO_TAG'[n + 1].geo_id
                      /\ \A i \in 1..n : GEO_TAG[i].geo_id # GEO_TAG'[n + 1].geo_id
              /\ NoSharedGeoValues => NoSharedGeoValues']_vars

\* The last call raised the ValueError documented for a country code.
RaisedCodeLength ==
    /\ ret.out.kind = "error"
    /\ ret.out.error = "ValueError"
    /\ ret.out.msg = <<"Country code '", ret.arg[1], "' must be three characters long.">>

\* The codes COUNTRY holds.
StoredCodes == {COUNTRY[i].code : i \in 1..Len(COUNTRY)}

\* C18 (as stated): Country.create_record with a code whose length is not 3 raises the
\* ValueError "Country code '<code>' must be three characters long." and leaves COUNTRY
\* unchanged; with a code of 3 characters it inserts exactly one record with that code
\* and name.
C18_CreateRecordChecksCodeLength ==
    [][ret'.op = "Country.create_record" =>
          IF Len(ret'.arg[1]) # 3
          THEN RaisedCodeLength' /\ COUNTRY' = COUNTRY
          ELSE COUNTRY' = Append(COUNTRY, [code |-> ret'.arg[1], name |-> ret'.arg[2]])]_vars

\* C18 (amended): Country.create_record with a code whose length is not 3 raises the
\* ValueError "Country code '<code>' must be three characters long." and leaves COUNTRY
\* unchanged; with a code of 3 characters that COUNTRY does not hold yet it inserts
\* exactly one record with that code and name; with a code of 3 characters that COUNTRY
\* holds already it raises IntegrityError and leaves COUNTRY unchanged.
C18_CreateRecordChecksLengthAndKey ==
    [][ret'.op = "Country.create_record" =>
          IF Len(ret'.arg[1]) # 3
          THEN RaisedCodeLength' /\ COUNTRY' = COUNTRY
          ELSE IF ret'.arg[1] \in StoredCodes
          THEN /\ ret'.out.kind = "error"
               /\ ret'.out.error = "IntegrityError"
               /\ COUNTRY' = COUNTRY
          ELSE /\ ret'.out.kind = "value"
               /\ COUNTRY' = Append(COUNTRY, [code |-> ret'.arg[1], name |-> ret'.arg[2]])]_vars

\* A code of 3 characters was given a second time, under another name: the call raised
\* and COUNTRY holds the one record of the first call.
C18_Witness ==
    /\ ret.op = "Country.create_record"
    /\ Len(ret.arg[1]) = 3
    /\ ret.out.kind = "error"
    /\ COUNTRY = <<[code |-> ret.arg[1], name |-> "New Zealand"]>>
    /\ ret.arg[2] = "Australia"

\* The positions of the stored records a selection by source, and by target when one
\* is given, is about.
Matching(source, target) ==
    {i \in 1..Len(GDELT_RECORD) :
        /\ GDELT_RECORD[i].source_id = source
        /\ target # None => GDELT_RECORD[i].target_id = target}

\* C19: GdeltRecord.select_by_country(source, target) returns exactly the stored
\* records whose source_id is the code of source and, when a target is given, whose
\* target_id is the code of target (one row for each, with the record's date and
\* values, and an empty table when there is none), and it changes no table of the
\* database.
C19_SelectByCountryReturnsMatches ==
    [][ret'.op = "GdeltRecord.select_by_country" =>
          LET at == SortedSeq(Matching(ret'.arg[1], ret'.arg[2]))
          IN  /\ ret'.out.kind = "table"
              /\ Len(ret'.out.rows) = Len(at)
              /\ \A n \in 1..Len(at) :
                    LET record == GDELT_RECORD[at[n]]
                        row    == ret'.out.rows[n]
                    IN  /\ row[1] = record.date[2]
                        /\ row[2] = record.source_id
                        /\ row[3] = record.target_id
                        /\ SubSeq(row, 4, 11) =
                              <<record.cameo_code, record.num_events, record.num_arts,
                                record.quad_class, record.goldstein, record.source_record_id,
                                record.target_record_id, record.action_record_id>>
              /\ UNCHANGED <<COUNTRY, GEO_TAG, GDELT_RECORD>>]_vars

\* Two records from one source to two targets are stored, and a selection by that
\* source and one of the targets returned the one record.
C19_Witness ==
    /\ ret.op = "GdeltRecord.select_by_country"
    /\ ret.arg[2] # None
    /\ Len(GDELT_RECORD) = 2
    /\ GDELT_RECORD[1].source_id = ret.arg[1] /\ GDELT_RECORD[2].source_id = ret.arg[1]
    /\ GDELT_RECORD[1].target_id # ret.arg[2] /\ GDELT_RECORD[2].target_id = ret.arg[2]
    /\ Len(ret.out.rows) = 1
    /\ ret.out.rows[1][3] = ret.arg[2]

(***************************************************************************)
(* Properties of a resolved view: row order, columns and labels.           *)
(***************************************************************************)
\* The number of times a row occurs in a table.
Occurrences(rows, row) == Cardinality({i \in 1..Len(rows) : rows[i] = row})

\* Two tables hold the same rows, each as often, in some order.
IsPermutation(rows, other) ==
    /\ Len(rows) = Len(other)
    /\ \A i \in 1..Len(rows) : Occurrences(rows, rows[i]) = Occurrences(other, rows[i])

RowSet(rows) == {rows[i] : i \in 1..Len(rows)}

\* C21: a bucketed resolve_view does not depend on the row order of the source table:
\* with a rule and reductions of distinct labels pending, it succeeds, and on every row
\* permutation of the source table it succeeds too and returns the same set of rows.
C21_RowOrderIsIrrelevant ==
    (/\ Resolved
     /\ HasRule
     /\ ~HasDuplicates(Labels(agg_expressions))
     /\ \A k \in 1..Len(agg_expressions) : agg_expressions[k].func \in Reducers)
    => /\ ret.out.kind = "table"
       /\ \A other \in SourceTables :
             IsPermutation(data_frame, other) =>
                LET there == ResolveView(other, filter_expressions, group_by_column,
                                         group_by_step, agg_expressions)
                IN  /\ there.kind = "table"
                    /\ RowSet(there.rows) = RowSet(ret.out.rows)

\* The step each rank sets.
StepOf(rank) ==
    CASE rank = "Year" -> "1y" [] rank = "Month" -> "1m" [] rank = "Day" -> "1d"

\* C22: a successful apply_dynamic_date_grouping call, a second or later one included,
\* leaves its own column and step as the one pending rule, whatever rule was pending
\* before; and a resolve_view that follows the call groups by that rule alone: its
\* first column is the call's column and its keys are the starts of the windows, of the
\* call's step, of the kept rows.
C22_LastGroupingRuleWins ==
    [][/\ (ret'.op = "apply_dynamic_date_grouping" /\ Succeeded')
            => /\ group_by_column' = ret'.col
               /\ group_by_step' = StepOf(ret'.arg)
       /\ (/\ ret'.op = "resolve_view"
           /\ ret.op = "apply_dynamic_date_grouping" /\ Succeeded
           /\ ~HasDuplicates(Labels(agg_expressions))
           /\ IsSorted(Column(KeptRows, ret.col)))
            => /\ ret'.out.kind = "table"
               /\ ret'.out.columns[1] = ret.col
               /\ {ret'.out.rows[r][1] : r \in 1..Len(ret'.out.rows)}
                     = {Truncate(KeptRows[i][ColIdx(ret.col)], EveryUnit(StepOf(ret.arg))) :
                           i \in 1..Len(KeptRows)}]_vars

\* A view resolved over two days of one month and year with an expression pending and
\* the Day rule in effect: one row for each day, as no rule but that of the last call
\* gives.
C22_Witness ==
    /\ Resolved
    /\ group_by_step = "1d"
    /\ agg_expressions # <<>>
    /\ ret.out.kind = "table"
    /\ Len(ret.out.rows) = 2
    /\ data_frame = <<<<20000101, 1>>, <<20000131, 2>>>>

\* The label a registration call returns for the expression it adds.
ReturnedLabel(expr) ==
    IF expr.func = "implode" THEN expr.col \o "_implode" ELSE expr.func \o "_" \o expr.col

\* C23: the columns of a bucketed resolve_view result are the bucket key column and
\* then one column for each registered reduction or sequence expression, named by the
\* label its registration call returned, in the order of the calls; every row has a
\* cell for each.
C23_ColumnsFollowRegistrationOrder ==
    (Resolved /\ HasRule /\ ret.out.kind = "table")
    => /\ ret.out.columns =
             <<group_by_column>> \o
             [k \in 1..Len(agg_expressions) |-> ReturnedLabel(agg_expressions[k])]
       /\ \A r \in 1..Len(ret.out.rows) : Len(ret.out.rows[r]) = 1 + Len(agg_expressions)

\* A bucketed result of a reduction registered before a sequence expression.
C23_Witness ==
    /\ Resolved /\ HasRule
    /\ ret.out.kind = "table"
    /\ ret.out.columns = <<"date", "sum_a", "a_implode">>
    /\ ret.out.rows # <<>>

\* The values of a column that are present in the source table.
Present(col_name) ==
    {data_frame[i][ColIdx(col_name)] : i \in 1..Len(data_frame)} \ {NULL}

\* The least and the greatest of a set of values; null for the empty set.
Least(S) == IF S = {} THEN NULL ELSE CHOOSE v \in S : \A w \in S : v <= w

Greatest(S) == IF S = {} THEN NULL ELSE CHOOSE v \in S : \A w \in S : w <= v

\* C24: extract_data_spread returns the (minimum, maximum) and extract_data_total the
\* sum of the named column over the whole source table, whatever filters, rule or
\* expressions are pending, and neither changes what is pending.
C24_ExtractionReadsWholeTable ==
    [][/\ (ret'.op = "extract_data_spread" /\ ret'.col \in ColumnSet)
            => /\ ret'.out = Returned(<<Least(Present(ret'.col)), Greatest(Present(ret'.col))>>)
               /\ UNCHANGED pending
       /\ (ret'.op = "extract_data_total" /\ ret'.col \in ColumnSet)
            => /\ ret'.out = Returned(Reduction("sum", ret'.col, 1..Len(data_frame)))
               /\ UNCHANGED pending]_vars

\* The total of the whole table taken while a rule, an expression and a filter that
\* drops a row are pending.
C24_Witness ==
    /\ ret.op = "extract_data_total"
    /\ ret.col = "a"
    /\ ret.out = Returned(3)
    /\ HasRule
    /\ agg_expressions # <<>>
    /\ filter_expressions # <<>>
    /\ Len(KeptRows) < Len(data_frame)

\* C25: with a rule pending and no reduction or sequence expression registered,
\* resolve_view succeeds and returns the bucket key column alone, with one row for each
\* calendar bucket (year, month or day, per the rule) that holds a kept row.
C25_RuleAloneReturnsBucketKeys ==
    (/\ Resolved
     /\ WellFormedGrouping
     /\ agg_expressions = <<>>)
    => /\ ret.out.kind = "table"
       /\ ret.out.columns = <<group_by_column>>
       /\ LET unit    == DocumentedUnit(PendingRank)
              idx     == ColIdx(group_by_column)
              buckets == {CalendarBucket(data_frame[i][idx], unit) : i \in Kept}
          IN  /\ Len(ret.out.rows) = Cardinality(buckets)
              /\ \A r \in 1..Len(ret.out.rows) : Len(ret.out.rows[r]) = 1
              /\ buckets = {CalendarBucket(ret.out.rows[r][1], unit) :
                               r \in 1..Len(ret.out.rows)}

\* C26: the labels returned by the successful apply_aggregation_rule and
\* apply_series_rule calls accumulated so far are pairwise distinct, and after a
\* bucketed resolve_view each of them names exactly one column of the result.
C26_LabelsArePairwiseDistinct ==
    /\ \A j, k \in 1..Len(agg_expressions) :
          j # k => ReturnedLabel(agg_expressions[j]) # ReturnedLabel(agg_expressions[k])
    /\ (Resolved /\ HasRule /\ IsSorted(Column(KeptRows, group_by_column)))
       => /\ ret.out.kind = "table"
          /\ \A k \in 1..Len(agg_expressions) :
                Occurrences(ret.out.columns, ReturnedLabel(agg_expressions[k])) = 1

\* The dates of a table a page holds.
DatesOf(table) == {table.rows[i][1] : i \in 1..Len(table.rows)}

\* The rows a selection by source alone is about, in the order of their records.
FetchedFor(source) ==
    LET of == SelectSeq(GDELT_RECORD, LAMBDA record : record.source_id = source)
    IN  [i \in 1..Len(of) |-> GdeltRow(of[i])]

\* C27: on the longitudinal page the session holds a plot_table only together with a
\* source_country, the one the table was fetched for, whatever was selected and
\* imported before (an import with no country selected included); so a run that shows
\* a table never fails on the name of the country.
C27_PlotTableHasItsCountry ==
    /\ session_state.plot_table # NoTable
       => /\ session_state.source_country # None
          /\ session_state.plot_table.rows = FetchedFor(session_state.source_country)
    /\ (ret.op = "visualise_longitudinal" /\ session_state.plot_table # NoTable
        /\ ~(ret.arg[1] /\ ret.col = None))
       => ret.out.kind = "table"

\* C28: when a run of the table-exploration page draws its date filters for a table,
\* the session's min_date and max_date, which the filters are drawn with, are the
\* least and the greatest date of explore_table, whatever was imported and visited
\* before on either page.
C28_DateFiltersSpanExploreTable ==
    (ret.op = "explore_db_disk" /\ session_state.explore_table # NoTable
     /\ ret.out.kind = "page")
    => /\ ret.out.min_date = session_state.min_date
       /\ ret.out.max_date = session_state.max_date
       /\ session_state.min_date = Least(DatesOf(session_state.explore_table))
       /\ session_state.max_date = Greatest(DatesOf(session_state.explore_table))

\* C29: a run of the longitudinal page with every widget of the filter panel at its
\* default shows every row of plot_table, the rows without a goldstein value
\* included.
C29_DefaultFiltersKeepEveryRow ==
    (ret.op = "visualise_longitudinal" /\ ret.out.kind = "table" /\ ret.arg[2] = "none")
    => ret.out.rows = session_state.plot_table.rows

====
